---- MODULE Spec2Model ----
(***************************************************************************)
(* EIDA federator: the request processor pipeline of                       *)
(* eidangservices/federator/server/process.py (RequestProcessor and its    *)
(* variants Raw, StationXML, StationText, WFCatalog) and the request slot  *)
(* of eidangservices/federator/server/limit.py, with the request handlers *)
(* of request.py and the legacy download task of route.py.                 *)
(*                                                                         *)
(* Spec     : one client request handled by a RequestProcessor: _request,  *)
(*            the first-data loop of streamed_response (phase 1) and the   *)
(*            streaming generator __iter__ (phase 2), with the download    *)
(*            tasks completing concurrently.                               *)
(* FairSpec : Spec with the orchestrating thread weakly fair.              *)
(* FairSpecDrain : the drain, with every submitted task finishing.         *)
(* SpecSlot : workers calling RequestSlot.acquire / release.               *)
(* SpecRoute: the loop of _route parsing a routing response body.          *)
(* SpecRoutes: demux_routes and group_routes_by called on a routing table. *)
(* SpecLevel: the level reduction of StationRequestProcessor._route.       *)
(* SpecSubmit: the tasks _request submits for a routing table.             *)
(* SpecChunks: generate_chunks of the WFCatalog processor on a payload.    *)
(* SpecParams: the parameters RoutingRequestHandler (request.py) sends.    *)
(* SpecPost  : payload_post of RequestHandlerBase (request.py).            *)
(* SpecRouteAt: SpecRoute for a request arriving at process start or later.*)
(* SpecDownload, FairSpecDownload: connect and the posting loop of         *)
(*            DownloadTask.__call__ (route.py), the task's thread weakly   *)
(*            fair in the latter.                                          *)
(***************************************************************************)
EXTENDS Integers, Sequences, FiniteSets, TLC

\* ------------------------------------------------------------------ bounds
\* Largest number of tasks submitted by _request (routes / networks).
MaxTasks == 2
\* Largest payload length (bytes) of a 200 result.
MaxLen == 4
\* CHUNK_SIZE of the processors (1024 in the source), scaled down so that a
\* payload of MaxLen bytes takes more than one chunk.
CHUNK_SIZE == 2
\* settings.EIDA_FEDERATOR_STREAMING_TIMEOUT, in clock ticks.
TIMEOUT_STREAMING == 1
\* The request arrives either when the process starts (clock 0) or MaxStart
\* ticks later.
MaxStart == 2

\* --------------------------------------------------------------- constants
\* RequestProcessor.DEFAULT_ENDTIME: a class attribute, datetime.utcnow()
\* evaluated once when the module is imported, i.e. at process start.
DEFAULT_ENDTIME == 0

\* The clock is not advanced beyond MaxNow, the first value past the deadline
\* the first-data loop computes.
MaxNow == IF MaxStart > DEFAULT_ENDTIME + TIMEOUT_STREAMING + 1
          THEN MaxStart ELSE DEFAULT_ENDTIME + TIMEOUT_STREAMING + 1

Variants == {"raw", "xml", "text", "wfcatalog"}
HeaderLevels == {"network", "station", "channel"}
Levels == HeaderLevels \cup {"response"}
Statuses == {200, 204, 413, 500}

\* Levels a processor of the given variant is created with; only the station
\* text processor reads the level while streaming.  The three header levels
\* differ in the text of the header line only, so requests are drawn with
\* one of them and with the level that has no header line.
LevelsOf(v) == IF v = "text" THEN {"channel", "response"} ELSE {"none"}

VARIABLES
  variant,            \* which RequestProcessor subclass handles the request
  level,              \* StationRequestProcessor._level
  t0,                 \* clock value at which the request arrived
  now,                \* datetime.datetime.utcnow()
  pc,                 \* position of the orchestrating thread
  n,                  \* number of tasks submitted
  tasks,              \* task id -> [st, status, length]: the AsyncResults
  results,            \* self._results: outstanding task handles
  sizes,              \* self._sizes
  idx,                \* enumerate index of the running for loop
  result_with_data,   \* local of streamed_response
  cur,                \* _result being streamed (task id), 0 if none
  pos,                \* fd.tell() of the file being streamed
  size,               \* local size of WFCatalogRequestProcessor.__iter__
  out,                \* chunks yielded to the client so far
  files,              \* temp files existing on disk (by task id)
  pool,               \* self._pool: "none", "open", "closed", "joined"
  error,              \* exception that ended the request, "none" if none
  cause,              \* the statement that raised it
  spc,                \* slot worker -> position in acquire
  stimeout,           \* slot worker -> timeout argument of acquire
  valid_until,        \* slot worker -> local valid_until
  sret,               \* slot worker -> value returned by acquire
  snow,               \* time.time() of the slot workers
  lines,              \* body of the routing response, line by line
  reads,              \* number of fd.readline() calls made by _route
  urlline,            \* local urlline of _route
  stream_epochs,      \* local stream_epochs of _route
  routing_table,      \* local routing_table of _route
  rpc,                \* position of _route: "loop", "returned"
  routes,             \* the routing table RequestProcessor._route returned
  rop,                \* the route transform that was called, "none" if none
  rarg,               \* its argument besides routes
  retval,             \* what it returned or raised
  sncls,              \* DownloadTask.sncls, the selector lines
  di,                 \* local i of DownloadTask.__call__: offset of the chunk
  dn,                 \* local n of DownloadTask.__call__: lines per chunk
  dpc,                \* position of __call__: "idle", "loop", "connect", "ended"
  postdata,           \* the selector lines of the POST being made
  posts,              \* the POSTs made so far: their lines and how they ended
  count,              \* argument count of connect (num_retries)
  cn,                 \* local n of connect
  attempts,           \* number of urlopen calls made by the running connect
  cpc,                \* position of connect: "idle", "loop", "ended"
  clast,              \* what the last urlopen call of connect did
  cret                \* what connect returned or raised

ovars == <<variant, level, t0, now, pc, n, tasks, results, sizes, idx,
           result_with_data, cur, pos, size, out, files, pool, error, cause>>
svars == <<spc, stimeout, valid_until, sret, snow>>
rvars == <<lines, reads, urlline, stream_epochs, routing_table, rpc>>
tvars == <<routes, rop, rarg, retval>>
dvars == <<sncls, di, dn, dpc, postdata, posts,
           count, cn, attempts, cpc, clast, cret>>
vars == <<variant, level, t0, now, pc, n, tasks, results, sizes, idx,
          result_with_data, cur, pos, size, out, files, pool, error, cause,
          spc, stimeout, valid_until, sret, snow,
          lines, reads, urlline, stream_epochs, routing_table, rpc,
          routes, rop, rarg, retval,
          sncls, di, dn, dpc, postdata, posts,
          count, cn, attempts, cpc, clast, cret>>

\* ----------------------------------------------------------------- helpers
TaskIds == 1..MaxTasks

Min(a, b) == IF a < b THEN a ELSE b

RECURSIVE SumSeq(_)
SumSeq(s) == IF s = <<>> THEN 0 ELSE Head(s) + SumSeq(Tail(s))

\* Fault injection for C16: the first element is removed, whatever the index.
PopFirst(s, i) == Tail(s)
\* list.pop(i) with a 0-based index i.
Pop(s, i) == SubSeq(s, 1, i) \o SubSeq(s, i + 2, Len(s))

\* Output chunks.  k: "H" header, "F" footer, "S" separator, "B" body chunk of
\* task t holding the c bytes of its payload from offset o on.
Chunk(kk, tt, oo, cc) == [k |-> kk, t |-> tt, o |-> oo, c |-> cc]
HEADER == Chunk("H", 0, 0, 0)
FOOTER == Chunk("F", 0, 0, 0)
JSON_LIST_SEP == Chunk("S", 0, 0, 0)

NoTask == [st |-> "none", status |-> 0, length |-> 0]

SlotWorkers == {1, 2}
SlotIdle == [w \in SlotWorkers |-> "idle"]
SlotZero == [w \in SlotWorkers |-> 0]
SlotNone == [w \in SlotWorkers |-> "none"]

\* ------------------------------------------------------------------- Init
\* RequestProcessor.__init__: no pool, no results, no sizes.
InitProcessor ==
  /\ variant \in Variants
  /\ level \in LevelsOf(variant)
  /\ t0 \in {0, MaxStart}
  /\ now = t0
  /\ pc = "request"
  /\ n = 0
  /\ tasks = [i \in TaskIds |-> NoTask]
  /\ results = <<>>
  /\ sizes = <<>>
  /\ idx = 0
  /\ result_with_data = FALSE
  /\ cur = 0
  /\ pos = 0
  /\ size = 0
  /\ out = <<>>
  /\ files = {}
  /\ pool = "none"
  /\ error = "none"
  /\ cause = "none"

\* No worker is inside RequestSlot.acquire.
InitSlots ==
  /\ spc = SlotIdle
  /\ stimeout = SlotZero
  /\ valid_until = SlotZero
  /\ sret = SlotNone
  /\ snow = 0

\* The locals of _route before its loop, for the response body `body`.
None == "None"
InitParse(body) ==
  /\ lines = body
  /\ reads = 0
  /\ urlline = None
  /\ stream_epochs = <<>>
  /\ routing_table = <<>>
  /\ rpc = "loop"

\* No route transform has been called on the routing table `table`.
InitTransform(table) ==
  /\ routes = table
  /\ rop = "none"
  /\ rarg = None
  /\ retval = None

\* connect has not called urlopen, and has not ended.
NoOutcome == [kind |-> "none", code |-> 0, ctype |-> ""]
NotEnded == [raised |-> FALSE, value |-> NoOutcome]

\* A DownloadTask for the selector lines `ls` with num_retries = `retries`,
\* at the position `at` of __call__; connect has not been called.
InitTask(ls, retries, at) ==
  /\ sncls = ls
  /\ di = 0
  /\ dn = Len(ls)
  /\ dpc = at
  /\ postdata = <<>>
  /\ posts = <<>>
  /\ count = retries
  /\ cn = 0
  /\ attempts = 0
  /\ cpc = "idle"
  /\ clast = NoOutcome
  /\ cret = NotEnded
NoDownload == InitTask(<<>>, 0, "idle")

Init ==
  /\ InitProcessor /\ InitSlots /\ InitParse(<<>>) /\ InitTransform(<<>>)
  /\ NoDownload

\* ------------------------------------------------------------ environment
\* Payload lengths of a 200 result: any length, the empty payload included;
\* a WFCatalog payload is a JSON array, "[]" at least.
PayloadLengths(v) == IF v = "wfcatalog" THEN 2..MaxLen ELSE 0..MaxLen

\* A download (or combiner) task finishes in its worker: the AsyncResult
\* becomes ready with a status; a 200 result leaves a temp file holding
\* `length` bytes, any other result has length 0 and no file.
TaskComplete(i) ==
  /\ i \in 1..n
  /\ tasks[i].st = "pending"
  /\ \E s \in Statuses :
       \E l \in (IF s = 200 THEN PayloadLengths(variant) ELSE {0}) :
         /\ tasks' = [tasks EXCEPT ![i] = [st |-> "ready", status |-> s, length |-> l]]
         /\ files' = IF s = 200 THEN files \cup {i} ELSE files
  /\ UNCHANGED <<variant, level, t0, now, pc, n, results, sizes, idx,
                 result_with_data, cur, pos, size, out, pool, error, cause>>
  /\ UNCHANGED <<svars, rvars, tvars, dvars>>

\* Wall-clock time passes.  The clock is read in one place only, the deadline
\* test of the first-data loop, which is reached when no result had data: the
\* time that has passed since the last reading is let pass there.
Tick ==
  /\ pc = "p1check" /\ ~result_with_data
  /\ now < MaxNow
  /\ now' = now + 1
  /\ UNCHANGED <<variant, level, t0, pc, n, tasks, results, sizes, idx,
                 result_with_data, cur, pos, size, out, files, pool, error, cause>>
  /\ UNCHANGED <<svars, rvars, tvars, dvars>>

\* ---------------------------------------------------------------- _request
\* How the routing request of _route ends: with a response body to parse, or
\* with the NoContent (HTTP 204) or RequestsError binary_request raises.
RoutingOutcomes == {"routes", "NoContent", "RequestsError"}

\* Fault injection for C14: every routing failure is reported as NoData.
RouteErrorNoData(r) == "NoData"
\* except NoContent: raise NoDataError(); except RequestsError: raise
\* InternalServerError(service_id='federator')
RouteError(r) == IF r = "NoContent" THEN "NoData" ELSE "InternalServerError"

\* routes = self._route() comes first: a routing failure leaves _request
\* before the pool is created.  Then pool_size = min(len(routes), POOL_SIZE);
\* a pool of 0 processes is refused by multiprocessing (ValueError) before any
\* task is submitted.  Raw, StationText and WFCatalog close the pool after
\* submitting.
Request ==
  /\ pc = "request"
  /\ \E r \in RoutingOutcomes, k \in 0..MaxTasks :
       IF r # "routes"
       THEN /\ k = 0
            /\ pc' = "failed"
            /\ error' = RouteError(r)
            /\ cause' = r
            /\ UNCHANGED <<n, tasks, results, pool>>
       ELSE IF k = 0
       THEN /\ pc' = "failed"
            /\ error' = "ValueError"
            /\ cause' = "pool"
            /\ UNCHANGED <<n, tasks, results, pool>>
       ELSE /\ n' = k
            /\ tasks' = [i \in TaskIds |->
                           IF i <= k THEN [st |-> "pending", status |-> 0, length |-> 0]
                           ELSE NoTask]
            /\ results' = [i \in 1..k |-> i]
            /\ pool' = IF variant = "xml" THEN "open" ELSE "closed"
            /\ pc' = "p1scan"
            /\ UNCHANGED <<error, cause>>
  /\ UNCHANGED <<variant, level, t0, now, sizes, idx, result_with_data, cur,
                 pos, size, out, files>>
  /\ UNCHANGED <<svars, rvars, tvars, dvars>>

\* ------------------------------------------------------- streamed_response
\* The result the running for loop looks at: enumerate() and the list
\* iterator advance together, so the element is _results[idx].
InLoop == idx < Len(results)
\* Fault injection for C35: the loop looks at the head of the list, whatever
\* the index.
CursorFirst == results[1]
Cursor == results[idx + 1]
\* Fault injection for C23: the handle is taken as ready without asking.
ReadyAlways(h) == TRUE
\* result.ready()
Ready(h) == tasks[h].st = "ready"
Status(h) == tasks[h].status

\* What the variant's _handle_413 raises: Raw and WFCatalog override the hook
\* and raise NoDataError; the station processors inherit the base hook, which
\* raises NotImplementedError.
Handle413(v) == IF v \in {"raw", "wfcatalog"} THEN "NoDataError" ELSE "NotImplementedError"

\* Fault injection for C1: the loop is left whether or not a 200 was seen.
FirstDataAlways(rwd) == TRUE
\* if result_with_data: break
FirstData(rwd) == rwd

\* The deadline of the first-data loop, for a request that arrived at `start`.
Deadline(start) == DEFAULT_ENDTIME + TIMEOUT_STREAMING

\* for idx, result in enumerate(_results): the iterator is exhausted.
P1EndScan ==
  /\ pc = "p1scan"
  /\ ~InLoop
  /\ pc' = "p1check"
  /\ UNCHANGED <<variant, level, t0, now, n, tasks, results, sizes, idx,
                 result_with_data, cur, pos, size, out, files, pool, error, cause>>
  /\ UNCHANGED <<svars, rvars, tvars, dvars>>

\* result.ready() is false: next element.
P1NotReady ==
  /\ pc = "p1scan"
  /\ InLoop
  /\ ~Ready(Cursor)
  /\ idx' = idx + 1
  /\ UNCHANGED <<variant, level, t0, now, pc, n, tasks, results, sizes,
                 result_with_data, cur, pos, size, out, files, pool, error, cause>>
  /\ UNCHANGED <<svars, rvars, tvars, dvars>>

\* Fault injection for C34: a result without data is not tallied.
TallyData(sz, s) == IF s = 0 THEN sz ELSE Append(sz, s)
\* self._sizes.append(s)
Tally(sz, s) == Append(sz, s)

\* status 200: result_with_data = True; the result stays in _results.
P1Ok ==
  /\ pc = "p1scan"
  /\ InLoop
  /\ Ready(Cursor)
  /\ Status(Cursor) = 200
  /\ result_with_data' = TRUE
  /\ idx' = idx + 1
  /\ UNCHANGED <<variant, level, t0, now, pc, n, tasks, results, sizes,
                 cur, pos, size, out, files, pool, error, cause>>
  /\ UNCHANGED <<svars, rvars, tvars, dvars>>

\* status 413: self._handle_413(_result); only NotImplementedError is caught
\* (and logged), the result stays in _results.  Anything else propagates out
\* of streamed_response.
P1TooLarge ==
  /\ pc = "p1scan"
  /\ InLoop
  /\ Ready(Cursor)
  /\ Status(Cursor) = 413
  /\ IF Handle413(variant) = "NotImplementedError"
     THEN /\ idx' = idx + 1
          /\ UNCHANGED <<pc, error, cause>>
     ELSE /\ pc' = "failed"
          /\ error' = "NoData"
          /\ cause' = "handle_413"
          /\ UNCHANGED idx
  /\ UNCHANGED <<variant, level, t0, now, n, tasks, results, sizes,
                 result_with_data, cur, pos, size, out, files, pool>>
  /\ UNCHANGED <<svars, rvars, tvars, dvars>>

\* any other status: _handle_error (log), _sizes.append(0), _results.pop(idx).
P1Error ==
  /\ pc = "p1scan"
  /\ InLoop
  /\ Ready(Cursor)
  /\ Status(Cursor) \notin {200, 413}
  /\ sizes' = Tally(sizes, 0)
  /\ results' = Pop(results, idx)
  /\ idx' = idx + 1
  /\ UNCHANGED <<variant, level, t0, now, pc, n, tasks,
                 result_with_data, cur, pos, size, out, files, pool, error, cause>>
  /\ UNCHANGED <<svars, rvars, tvars, dvars>>

\* After the scan: break with data, raise NoDataError when nothing is
\* outstanding or the deadline has passed, else scan again.
\* With data the Response is returned and its generator is iterated.
P1Check ==
  /\ pc = "p1check"
  /\ IF FirstData(result_with_data)
     THEN /\ pc' = "p2scan"
          /\ UNCHANGED <<error, cause>>
     ELSE IF results = <<>>
     THEN /\ pc' = "failed"
          /\ error' = "NoData"
          /\ cause' = "no_results"
     ELSE IF now > Deadline(t0)
     THEN /\ pc' = "failed"
          /\ error' = "NoData"
          /\ cause' = "timeout"
     ELSE /\ pc' = "p1scan"
          /\ UNCHANGED <<error, cause>>
  /\ idx' = 0
  /\ UNCHANGED <<variant, level, t0, now, n, tasks, results, sizes,
                 result_with_data, cur, pos, size, out, files, pool>>
  /\ UNCHANGED <<svars, rvars, tvars, dvars>>

\* ---------------------------------------------------------------- __iter__
Length(h) == tasks[h].length

\* The header the variant yields before a payload: the station XML HEADER,
\* the station text HEADER_NETWORK/STATION/CHANNEL line chosen by the level
\* (no line for any other level), the JSON_LIST_START; Raw has none.
HasHeader(v, lv) ==
  \/ v \in {"xml", "wfcatalog"}
  \/ v = "text" /\ lv \in HeaderLevels

\* if not sum(self._sizes): yield the header.
HeaderDue(sz) == SumSeq(sz) = 0

\* The variants that yield a footer after the drain: FOOTER, JSON_LIST_END.
HasFooter(v) == v \in {"xml", "wfcatalog"}

\* fd.read(chunk_size) at offset p of a file of len bytes: how many bytes.
ReadLen(len, p) == IF p < len THEN Min(CHUNK_SIZE, len - p) ELSE 0

\* Fault injection for C20: a byte is skipped after every read.
TellSkip(p, c) == p + c + 1
\* fd.tell() after a read of c bytes at offset p.
Tell(p, c) == p + c

\* Fault injection for C8: the trailing bracket is not skipped.
WfcBufLenKeep(len, p) == ReadLen(len, p)
\* WFCatalog generate_chunks: the buffer read at offset p loses its last
\* byte when the read reached the end of the file (fd.tell() == _size).
WfcBufLen(len, p) ==
  IF p + ReadLen(len, p) = len THEN ReadLen(len, p) - 1 ELSE ReadLen(len, p)

\* if len(self._results) > 1: yield JSON_LIST_SEP
SepDue(rs) == Len(rs) > 1

\* the for loop of __iter__ is exhausted.
P2EndScan ==
  /\ pc = "p2scan"
  /\ ~InLoop
  /\ pc' = "p2check"
  /\ UNCHANGED <<variant, level, t0, now, n, tasks, results, sizes, idx,
                 result_with_data, cur, pos, size, out, files, pool, error, cause>>
  /\ UNCHANGED <<svars, rvars, tvars, dvars>>

P2NotReady ==
  /\ pc = "p2scan"
  /\ InLoop
  /\ ~Ready(Cursor)
  /\ idx' = idx + 1
  /\ UNCHANGED <<variant, level, t0, now, pc, n, tasks, results, sizes,
                 result_with_data, cur, pos, size, out, files, pool, error, cause>>
  /\ UNCHANGED <<svars, rvars, tvars, dvars>>

\* status_code != 200 (413 included: the elif for 413 comes after this test
\* and is never taken): _handle_error, _sizes.append(0), _results.pop(idx).
P2Error ==
  /\ pc = "p2scan"
  /\ InLoop
  /\ Ready(Cursor)
  /\ Status(Cursor) # 200
  /\ sizes' = Tally(sizes, 0)
  /\ results' = Pop(results, idx)
  /\ idx' = idx + 1
  /\ UNCHANGED <<variant, level, t0, now, pc, n, tasks,
                 result_with_data, cur, pos, size, out, files, pool, error, cause>>
  /\ UNCHANGED <<svars, rvars, tvars, dvars>>

\* status 200: _result = result.get() is streamed next.
P2Ok ==
  /\ pc = "p2scan"
  /\ InLoop
  /\ Ready(Cursor)
  /\ Status(Cursor) = 200
  /\ cur' = Cursor
  /\ pc' = "p2hdr"
  /\ UNCHANGED <<variant, level, t0, now, n, tasks, results, sizes, idx,
                 result_with_data, pos, size, out, files, pool, error, cause>>
  /\ UNCHANGED <<svars, rvars, tvars, dvars>>

\* The header, when the variant has one and no size was tallied yet.
P2Header ==
  /\ pc = "p2hdr"
  /\ out' = IF HasHeader(variant, level) /\ HeaderDue(sizes)
            THEN Append(out, HEADER) ELSE out
  /\ pc' = "p2open"
  /\ UNCHANGED <<variant, level, t0, now, n, tasks, results, sizes, idx,
                 result_with_data, cur, pos, size, files, pool, error, cause>>
  /\ UNCHANGED <<svars, rvars, tvars, dvars>>

\* Fault injection for C17: the exception is swallowed and the loop goes on.
AfterStreamingErrorGoOn == "p2rm"
\* except Exception as err: raise StreamingError(err) leaves the generator.
AfterStreamingError == "failed"

\* Raw, XML, text: _sizes.append(_result.length), open the file.
\* WFCatalog: open the file, size = 0, generate_chunks seeks to offset 1.
\* open() of a file that does not exist raises: StreamingError.
P2Open ==
  /\ pc = "p2open"
  /\ IF variant = "wfcatalog"
     THEN /\ pos' = 1
          /\ size' = 0
          /\ UNCHANGED sizes
     ELSE /\ pos' = 0
          /\ sizes' = Tally(sizes, Length(cur))
          /\ UNCHANGED size
  /\ IF cur \in files
     THEN /\ pc' = "p2read"
          /\ UNCHANGED <<error, cause>>
     ELSE /\ pc' = AfterStreamingError
          /\ error' = "StreamingError"
          /\ cause' = "open"
  /\ UNCHANGED <<variant, level, t0, now, n, tasks, results, idx,
                 result_with_data, cur, out, files, pool>>
  /\ UNCHANGED <<svars, rvars, tvars, dvars>>

\* Raw and XML: one fd.read(CHUNK_SIZE), yielded unless empty.  Text: for line
\* in fd, one line; the payload's lines are taken to be CHUNK_SIZE bytes long
\* (the last one shorter).
P2ReadChunk ==
  /\ pc = "p2read"
  /\ variant \in {"raw", "xml", "text"}
  /\ LET c == ReadLen(Length(cur), pos) IN
       IF c = 0
       THEN /\ pc' = "p2rm"
            /\ UNCHANGED <<out, pos>>
       ELSE /\ out' = Append(out, Chunk("B", cur, pos, c))
            /\ pos' = Tell(pos, c)
            /\ UNCHANGED pc
  /\ UNCHANGED <<variant, level, t0, now, n, tasks, results, sizes, idx,
                 result_with_data, cur, size, files, pool, error, cause>>
  /\ UNCHANGED <<svars, rvars, tvars, dvars>>

\* WFCatalog: one round of generate_chunks; the (possibly empty) buffer is
\* yielded and counted in size.
P2ReadWfc ==
  /\ pc = "p2read"
  /\ variant = "wfcatalog"
  /\ LET c == ReadLen(Length(cur), pos)
         b == WfcBufLen(Length(cur), pos) IN
       IF c = 0
       THEN /\ pc' = "p2sep"
            /\ UNCHANGED <<out, pos, size>>
       ELSE /\ out' = Append(out, Chunk("B", cur, pos, b))
            /\ pos' = Tell(pos, c)
            /\ size' = size + b
            /\ UNCHANGED pc
  /\ UNCHANGED <<variant, level, t0, now, n, tasks, results, sizes, idx,
                 result_with_data, cur, files, pool, error, cause>>
  /\ UNCHANGED <<svars, rvars, tvars, dvars>>

\* open() or a read fails: except Exception -> raise StreamingError(err).
\* (A failing open() is a failure before the first read.)
P2IOError ==
  /\ pc = "p2read"
  /\ pc' = AfterStreamingError
  /\ error' = "StreamingError"
  /\ cause' = "streaming"
  /\ UNCHANGED <<variant, level, t0, now, n, tasks, results, sizes, idx,
                 result_with_data, cur, pos, size, out, files, pool>>
  /\ UNCHANGED <<svars, rvars, tvars, dvars>>

\* WFCatalog after the payload: _sizes.append(size); the separator when more
\* than one result is outstanding.
P2Sep ==
  /\ pc = "p2sep"
  /\ sizes' = Tally(sizes, size)
  /\ out' = IF SepDue(results) THEN Append(out, JSON_LIST_SEP) ELSE out
  /\ pc' = "p2rm"
  /\ UNCHANGED <<variant, level, t0, now, n, tasks, results, idx,
                 result_with_data, cur, pos, size, files, pool, error, cause>>
  /\ UNCHANGED <<svars, rvars, tvars, dvars>>

\* os.remove(_result.data); self._results.pop(idx)
P2Remove ==
  /\ pc = "p2rm"
  /\ files' = files \ {cur}
  /\ results' = Pop(results, idx)
  /\ idx' = idx + 1
  /\ cur' = 0
  /\ pc' = "p2scan"
  /\ UNCHANGED <<variant, level, t0, now, n, tasks, sizes,
                 result_with_data, pos, size, out, pool, error, cause>>
  /\ UNCHANGED <<svars, rvars, tvars, dvars>>

\* Fault injection for C19: the drain loop is never left.
DrainedNever(rs) == FALSE
\* if not self._results: break
Drained(rs) == rs = <<>>

P2Check ==
  /\ pc = "p2check"
  /\ pc' = IF Drained(results) THEN "p2foot" ELSE "p2scan"
  /\ idx' = 0
  /\ UNCHANGED <<variant, level, t0, now, n, tasks, results, sizes,
                 result_with_data, cur, pos, size, out, files, pool, error, cause>>
  /\ UNCHANGED <<svars, rvars, tvars, dvars>>

\* yield self.FOOTER / yield self.JSON_LIST_END
P2Footer ==
  /\ pc = "p2foot"
  /\ out' = IF HasFooter(variant) THEN Append(out, FOOTER) ELSE out
  /\ pc' = "p2join"
  /\ UNCHANGED <<variant, level, t0, now, n, tasks, results, sizes, idx,
                 result_with_data, cur, pos, size, files, pool, error, cause>>
  /\ UNCHANGED <<svars, rvars, tvars, dvars>>

\* self._pool.close(); self._pool.join()
P2Join ==
  /\ pc = "p2join"
  /\ \A i \in 1..n : tasks[i].st = "ready"
  /\ pool' = "joined"
  /\ pc' = "done"
  /\ UNCHANGED <<variant, level, t0, now, n, tasks, results, sizes, idx,
                 result_with_data, cur, pos, size, out, files, error, cause>>
  /\ UNCHANGED <<svars, rvars, tvars, dvars>>

\* The generator is suspended at a yield: the header, a chunk of the payload
\* being streamed, the separator or the footer was handed to the server.
AtYield ==
  \/ pc = "p2open" /\ HasHeader(variant, level) /\ HeaderDue(sizes)
  \/ pc = "p2read" /\ pos > (IF variant = "wfcatalog" THEN 1 ELSE 0)
  \/ pc = "p2rm" /\ variant = "wfcatalog" /\ SepDue(results)
  \/ pc = "p2join" /\ HasFooter(variant)

\* The client disconnects: the server stops iterating and the suspended
\* generator is closed.  GeneratorExit is raised at the yield; it is not an
\* Exception, so no except clause of __iter__ handles it, and __iter__ has no
\* finally clause: the generator just ends.
ClientDisconnect ==
  /\ AtYield
  /\ pc' = "disconnected"
  /\ error' = "GeneratorExit"
  /\ cause' = "disconnect"
  /\ UNCHANGED <<variant, level, t0, now, n, tasks, results, sizes, idx,
                 result_with_data, cur, pos, size, out, files, pool>>
  /\ UNCHANGED <<svars, rvars, tvars, dvars>>

\* The orchestrating thread: streamed_response, then the generator.
Orchestrator ==
  \/ Request
  \/ P1EndScan \/ P1NotReady \/ P1Ok \/ P1TooLarge \/ P1Error \/ P1Check
  \/ P2EndScan \/ P2NotReady \/ P2Error \/ P2Ok \/ P2Header \/ P2Open
  \/ P2ReadChunk \/ P2ReadWfc \/ P2Sep \/ P2Remove
  \/ P2Check \/ P2Footer \/ P2Join

Next ==
  \/ Orchestrator
  \/ P2IOError
  \/ ClientDisconnect
  \/ Tick
  \/ \E i \in TaskIds : TaskComplete(i)

Spec == Init /\ [][Next]_vars

FairSpec == Spec /\ WF_vars(Orchestrator)

\* The drain: a request arriving at process start, the clock standing still
\* (phase 2 never reads it), the orchestrating thread running and every
\* submitted task finishing.
InitDrain == Init /\ t0 = 0

NextDrain ==
  \/ Orchestrator
  \/ P2IOError
  \/ ClientDisconnect
  \/ \E i \in TaskIds : TaskComplete(i)

FairSpecDrain ==
  /\ InitDrain /\ [][NextDrain]_vars
  /\ WF_vars(Orchestrator)
  /\ \A i \in TaskIds : WF_vars(TaskComplete(i))

\* ------------------------------------------------------------- RequestSlot
\* Timeout arguments tried: -1 (disabled) and 0..MaxSlotTimeout.
MaxSlotTimeout == 2
\* The slot workers' clock saturates at MaxSlotNow.
MaxSlotNow == 3
\* Capacity of the endpoint the workers ask a slot for.
SlotCapacity == 1

SlotTimeouts == {-1} \cup 0..MaxSlotTimeout

\* check_timeout(timeout) of acquire.
CheckTimeout(t, vu, clock) == IF t = -1 THEN TRUE ELSE clock < vu

\* acquire(timeout): valid_until = time.time() + timeout
SlotAcquire(w) ==
  /\ spc[w] = "idle"
  /\ \E t \in SlotTimeouts :
       /\ stimeout' = [stimeout EXCEPT ![w] = t]
       /\ valid_until' = [valid_until EXCEPT ![w] = snow + t]
  /\ sret' = [sret EXCEPT ![w] = "none"]
  /\ spc' = [spc EXCEPT ![w] = "loop"]
  /\ UNCHANGED snow
  /\ UNCHANGED <<ovars, rvars, tvars, dvars>>

\* One round of the while loop: when check_timeout holds, timeout_passed is
\* set, the loop is left and acquire returns `not timeout_passed`; else the
\* worker sleeps.
SlotLoop(w) ==
  /\ spc[w] = "loop"
  /\ IF CheckTimeout(stimeout[w], valid_until[w], snow)
     THEN /\ sret' = [sret EXCEPT ![w] = "False"]
          /\ spc' = [spc EXCEPT ![w] = "returned"]
     ELSE /\ spc' = [spc EXCEPT ![w] = "sleep"]
          /\ UNCHANGED sret
  /\ UNCHANGED <<stimeout, valid_until, snow>>
  /\ UNCHANGED <<ovars, rvars, tvars, dvars>>

\* time.sleep(self._poll_interval): the clock has advanced when it returns.
SlotSleep(w) ==
  /\ spc[w] = "sleep"
  /\ spc' = [spc EXCEPT ![w] = "loop"]
  /\ snow' = IF snow < MaxSlotNow THEN snow + 1 ELSE snow
  /\ UNCHANGED <<stimeout, valid_until, sret>>
  /\ UNCHANGED <<ovars, rvars, tvars, dvars>>

\* release(): the body is empty.  The worker is done with the slot object.
SlotRelease(w) ==
  /\ spc[w] = "returned"
  /\ spc' = [spc EXCEPT ![w] = "idle"]
  /\ UNCHANGED <<stimeout, valid_until, sret, snow>>
  /\ UNCHANGED <<ovars, rvars, tvars, dvars>>

SlotTick ==
  /\ snow < MaxSlotNow
  /\ snow' = snow + 1
  /\ UNCHANGED <<spc, stimeout, valid_until, sret>>
  /\ UNCHANGED <<ovars, rvars, tvars, dvars>>

InitSlot == Init /\ variant = "raw" /\ t0 = 0

NextSlot ==
  \/ \E w \in SlotWorkers : SlotAcquire(w) \/ SlotLoop(w) \/ SlotSleep(w) \/ SlotRelease(w)
  \/ SlotTick

SpecSlot == InitSlot /\ [][NextSlot]_vars

\* ------------------------------------------------------------------ _route
\* Largest number of lines of a routing response body.
MaxLines == 6
\* How many times the parse loop is followed reading at the end of the body.
MaxEofReads == 2

\* The lines fd.readline() returns: an empty line, a line of white space, two
\* lines with text (an endpoint URL or a stream epoch, by position); at the
\* end of the body readline returns the empty string.
EOF == ""
LineTokens == {"\n", " \n", "a\n", "b\n"}
Bodies == UNION {[1..k -> LineTokens] : k \in 0..MaxLines}

\* line.strip()
Strip(line) ==
  CASE line = "a\n" -> "a"
    [] line = "b\n" -> "b"
    [] OTHER -> ""

\* Fault injection for C12: only None counts as "no URL yet".
FalsyNoneOnly(u) == u = None
\* `not urlline`: None and the empty string are both false.
Falsy(u) == u = None \/ u = ""

\* StreamEpoch.from_snclline(line, default_endtime=...): the stream epoch the
\* line spells out, its end being default_endtime (the lines of the model give
\* no end time).
FromSnclLine(line, default_endtime) ==
  [sncl |-> Strip(line), endtime |-> default_endtime]

\* utils.Route(url=urlline, streams=stream_epochs)
Route(url, streams) == [url |-> url, streams |-> streams]

\* Fault injection for C38: the block is added whether or not it has epochs.
AddRouteAlways(table, url, streams) == Append(table, Route(url, streams))
\* if stream_epochs: routing_table.append(utils.Route(url=urlline,
\*                                                   streams=stream_epochs))
AddRoute(table, url, streams) ==
  IF streams # <<>> THEN Append(table, Route(url, streams)) ELSE table

\* What the next fd.readline() returns.
ReadLine == IF reads < Len(lines) THEN lines[reads + 1] ELSE EOF

\* One round of the while loop of _route.
ParseStep ==
  /\ rpc = "loop"
  /\ reads < Len(lines) + MaxEofReads
  /\ reads' = reads + 1
  /\ LET line == ReadLine IN
       IF Falsy(urlline)
       THEN /\ urlline' = Strip(line)
            /\ UNCHANGED <<stream_epochs, routing_table, rpc>>
       ELSE IF Strip(line) = ""
       THEN /\ routing_table' = AddRoute(routing_table, urlline, stream_epochs)
            /\ urlline' = None
            /\ stream_epochs' = <<>>
            /\ rpc' = IF line = EOF THEN "returned" ELSE "loop"
       ELSE /\ stream_epochs' = Append(stream_epochs, FromSnclLine(line, DEFAULT_ENDTIME))
            /\ UNCHANGED <<urlline, routing_table, rpc>>
  /\ UNCHANGED lines
  /\ UNCHANGED <<ovars, svars, tvars, dvars>>

InitRoute ==
  /\ InitProcessor /\ variant = "raw" /\ t0 = 0
  /\ InitSlots
  /\ \E body \in Bodies : InitParse(body)
  /\ InitTransform(<<>>)
  /\ NoDownload

NextRoute == ParseStep

SpecRoute == InitRoute /\ [][NextRoute]_vars

\* _route called by a request that arrives when the process starts or
\* MaxStart ticks later.
InitRouteAt ==
  /\ InitProcessor /\ variant = "raw"
  /\ InitSlots
  /\ \E body \in Bodies : InitParse(body)
  /\ InitTransform(<<>>)
  /\ NoDownload

SpecRouteAt == InitRouteAt /\ [][NextRoute]_vars

\* -------------------------------------------------------- route transforms
\* Largest number of routes of a routing table.
MaxRoutes == 2
\* Largest number of stream epochs of one route.
MaxEpochs == 2

\* The attributes of a stream a route can be grouped by, and the stream
\* epochs of the routing tables: two stations of one network and a station of
\* a second network.
StreamAttrs == {"network", "station"}
StreamEpoch(net, sta) == [network |-> net, station |-> sta]
StreamEpochs == {StreamEpoch("N1", "S1"), StreamEpoch("N1", "S2"),
                 StreamEpoch("N2", "S1")}

\* The routing tables _route returns: every route has its own endpoint URL
\* and at least one stream epoch (a block without epochs is not appended).
Url(i) == "u" \o ToString(i)
EpochLists == UNION {[1..k -> StreamEpochs] : k \in 1..MaxEpochs}
RoutingTable(eps) == [i \in 1..Len(eps) |-> Route(Url(i), eps[i])]

\* What a call ends with: a returned value or a raised exception.
Returned(v) == [raised |-> None, value |-> v]
Raised(e) == [raised |-> e, value |-> <<>>]
RequestProcessorError == "RequestProcessorError"

\* Fault injection for C24: only the first stream epoch of a route is kept.
DemuxFirstOnly(rs) == [i \in 1..Len(rs) |-> Route(rs[i].url, <<rs[i].streams[1]>>)]
\* [utils.Route(route.url, streams=[se]) for route in routes
\*  for se in route.streams]
RECURSIVE demux_routes(_)
demux_routes(rs) ==
  IF rs = <<>> THEN <<>>
  ELSE [i \in 1..Len(Head(rs).streams) |->
          Route(Head(rs).url, <<Head(rs).streams[i]>>)]
       \o demux_routes(Tail(rs))

\* A group key is written as the list key.split(SEP) of its parts; the key
\* itself is the parts joined with SEP.
SEP == "."
RECURSIVE Join(_)
Join(parts) ==
  IF parts = <<>> THEN ""
  ELSE IF Len(parts) = 1 THEN parts[1]
  ELSE parts[1] \o SEP \o Join(Tail(parts))

\* The body of the try statement of group_routes_by for one demultiplexed
\* route: getattr with the whole key; on AttributeError, if SEP is in the key,
\* the attributes named by its parts joined with SEP; an AttributeError there,
\* or a key without SEP, ends as RequestProcessorError.
KeyOf(route, key) ==
  LET stream == route.streams[1] IN
    IF Len(key) = 1 /\ key[1] \in StreamAttrs
    THEN Returned(stream[key[1]])
    ELSE IF Len(key) > 1 /\ \A i \in 1..Len(key) : key[i] \in StreamAttrs
    THEN Returned(Join([i \in 1..Len(key) |-> stream[key[i]]]))
    ELSE Raised(RequestProcessorError)

\* A dict is the list of its items, [key, routes], in insertion order, the
\* order in which a dict of Python 3.7 (CPython 3.6) and later iterates;
\* request.py imports urllib.parse, so the package runs on Python 3 only.
\* Fault injection for C25: the route is put in front of its bucket.
DictPrepend(items, k, route) ==
  IF \E i \in 1..Len(items) : items[i].key = k
  THEN [i \in 1..Len(items) |->
          IF items[i].key = k
          THEN [key |-> k, routes |-> <<route>> \o items[i].routes]
          ELSE items[i]]
  ELSE Append(items, [key |-> k, routes |-> <<route>>])
\* retval[_key].append(route) on a defaultdict(list)
DictAppend(items, k, route) ==
  IF \E i \in 1..Len(items) : items[i].key = k
  THEN [i \in 1..Len(items) |->
          IF items[i].key = k
          THEN [key |-> k, routes |-> Append(items[i].routes, route)]
          ELSE items[i]]
  ELSE Append(items, [key |-> k, routes |-> <<route>>])

\* for route in routes: ...; return retval
RECURSIVE GroupLoop(_, _, _)
GroupLoop(rs, key, acc) ==
  IF rs = <<>> THEN Returned(acc)
  ELSE LET k == KeyOf(Head(rs), key) IN
         IF k.raised # None THEN k
         ELSE GroupLoop(Tail(rs), key, DictAppend(acc, k.value, Head(rs)))

group_routes_by(rs, key) == GroupLoop(demux_routes(rs), key, <<>>)

\* [route for routes in grouped_routes.values() for route in routes]
RECURSIVE flatten_routes(_)
flatten_routes(items) ==
  IF items = <<>> THEN <<>>
  ELSE Head(items).routes \o flatten_routes(Tail(items))

\* The keys group_routes_by is called with: stream attributes, a combination
\* of them, and keys that name no attribute, with and without SEP.
GroupKeys == {<<"network">>, <<"station">>, <<"network", "station">>,
              <<"station", "network">>, <<"bogus">>, <<"network", "bogus">>}

\* A call of demux_routes(routes).
CallDemux ==
  /\ rop = "none"
  /\ rop' = "demux_routes"
  /\ rarg' = None
  /\ retval' = Returned(demux_routes(routes))
  /\ UNCHANGED routes
  /\ UNCHANGED <<ovars, svars, rvars, dvars>>

\* A call of group_routes_by(routes, key).
CallGroup ==
  /\ rop = "none"
  /\ \E key \in GroupKeys :
       /\ rarg' = key
       /\ retval' = group_routes_by(routes, key)
  /\ rop' = "group_routes_by"
  /\ UNCHANGED routes
  /\ UNCHANGED <<ovars, svars, rvars, dvars>>

InitRoutes ==
  /\ InitProcessor /\ variant = "raw" /\ t0 = 0
  /\ InitSlots
  /\ InitParse(<<>>)
  /\ \E k \in 0..MaxRoutes :
       \E eps \in [1..k -> EpochLists] : InitTransform(RoutingTable(eps))
  /\ NoDownload

NextRoutes == CallDemux \/ CallGroup

SpecRoutes == InitRoutes /\ [][NextRoutes]_vars

\* ------------------------------------------ StationRequestProcessor._route
\* Fault injection for C27: the last route of each network is kept.
LastOfEach(items) ==
  [i \in 1..Len(items) |->
     [key |-> items[i].key,
      routes |-> <<items[i].routes[Len(items[i].routes)]>>]]
\* dict((net, [_routes[0]]) for net, _routes in ....items())
FirstOfEach(items) ==
  [i \in 1..Len(items) |->
     [key |-> items[i].key, routes |-> <<items[i].routes[1]>>]]

\* Fault injection for C28: the last route of each station is kept.
LastRoutes(items) ==
  [i \in 1..Len(items) |-> items[i].routes[Len(items[i].routes)]]
\* [_routes[0] for _routes in ....values()]
FirstRoutes(items) == [i \in 1..Len(items) |-> items[i].routes[1]]

\* The reduction of StationRequestProcessor._route for the routing table rs
\* (the keys it groups by are valid, so group_routes_by returns).
StationRoute(rs, lvl) ==
  IF lvl = "network"
  THEN Returned(FirstOfEach(group_routes_by(rs, <<"network">>).value))
  ELSE IF lvl = "station"
  THEN group_routes_by(
         FirstRoutes(group_routes_by(rs, <<"network", "station">>).value),
         <<"network">>)
  ELSE group_routes_by(rs, <<"network">>)

\* A call of StationRequestProcessor._route with self._level = lvl, the
\* routing table being what RequestProcessor._route returned.
CallRoute ==
  /\ rop = "none"
  /\ \E lvl \in Levels :
       /\ rarg' = lvl
       /\ retval' = StationRoute(routes, lvl)
  /\ rop' = "_route"
  /\ UNCHANGED routes
  /\ UNCHANGED <<ovars, svars, rvars, dvars>>

NextLevel == CallRoute

SpecLevel == InitRoutes /\ [][NextLevel]_vars

\* ---------------------------------------------------- the tasks of _request
\* RawDownloadTask / StationTextDownloadTask(GranularFdsnRequestHandler(
\* route.url, route.streams[0], ...)): the handler keeps [stream_epoch].
DownloadTask(route) == [url |-> route.url, stream_epochs |-> <<route.streams[1]>>]
\* StationXMLNetworkCombinerTask(routes, self.query_params, name=net)
CombinerTask(item) == [name |-> item.key, routes |-> item.routes]

\* Fault injection for C21: the loop stops one route early.
DownloadTasksButLast(rs) == [i \in 1..(Len(rs) - 1) |-> DownloadTask(rs[i])]
\* for route in routes: ... self._results.append(self._pool.apply_async(t))
DownloadTasks(rs) == [i \in 1..Len(rs) |-> DownloadTask(rs[i])]
\* for net, routes in routes.items(): ... self._results.append(...)
CombinerTasks(items) == [i \in 1..Len(items) |-> CombinerTask(items[i])]

\* The routes _request walks over: the demultiplexed routing table (raw,
\* wfcatalog), the flattened reduction (station text), or the items of the
\* reduction, one per network (station xml).
RoutesOf(v, lvl, table) ==
  CASE v \in {"raw", "wfcatalog"} -> demux_routes(table)
    [] v = "text" -> flatten_routes(StationRoute(table, lvl).value)
    [] v = "xml" -> StationRoute(table, lvl).value

\* _request of variant v: the pool of min(len(routes), POOL_SIZE) processes
\* is created first (refused with ValueError for 0 processes), then one task
\* per route is submitted.
RequestTasks(v, lvl, table) ==
  LET rs == RoutesOf(v, lvl, table) IN
    IF Len(rs) = 0 THEN Raised("ValueError")
    ELSE IF v = "xml" THEN Returned(CombinerTasks(rs))
    ELSE Returned(DownloadTasks(rs))

\* A call of _request; retval is the list of the tasks submitted.
CallRequest ==
  /\ rop = "none"
  /\ \E v \in Variants :
       \E lvl \in IF v \in {"xml", "text"} THEN Levels ELSE {"none"} :
         /\ rarg' = [variant |-> v, level |-> lvl]
         /\ retval' = RequestTasks(v, lvl, routes)
  /\ rop' = "_request"
  /\ UNCHANGED routes
  /\ UNCHANGED <<ovars, svars, rvars, dvars>>

NextSubmit == CallRequest

SpecSubmit == InitRoutes /\ [][NextSubmit]_vars

\* -------------------------------------------- WFCatalog generate_chunks
\* Largest length (bytes) of a payload file read by generate_chunks.
MaxPayload == 5
\* Largest chunk size generate_chunks is called with.
MaxChunk == 3

\* The bytes of a payload file, and the payload files.
ByteValues == {"[", "]", "x"}
Payloads == UNION {[1..k -> ByteValues] : k \in 0..MaxPayload}

\* fd.read(chunk_size) with the file position at p: up to chunk_size bytes,
\* fewer at the end of the file, none at or beyond it.
FdRead(fd, p, chunk_size) == SubSeq(fd, p + 1, Min(p + chunk_size, Len(fd)))

\* Fault injection for C29: the buffer keeps its last byte.
DropNone(buf) == buf
\* buf[:-1]
DropLast(buf) == SubSeq(buf, 1, Len(buf) - 1)

\* The while loop of generate_chunks with the file position at p: read, stop
\* on an empty buffer, drop the last byte if fd.tell() == _size, yield.
RECURSIVE ChunksFrom(_, _, _)
ChunksFrom(fd, chunk_size, p) ==
  LET buf == FdRead(fd, p, chunk_size)
      tell == p + Len(buf)
  IN IF buf = <<>> THEN <<>>
     ELSE <<IF tell = Len(fd) THEN DropLast(buf) ELSE buf>>
          \o ChunksFrom(fd, chunk_size, tell)

\* generate_chunks(fd, chunk_size): fd.seek(1), then the loop; the value is
\* the list of the chunks yielded.
generate_chunks(fd, chunk_size) == ChunksFrom(fd, chunk_size, 1)

\* generate_chunks run to its end on a payload file.
CallGenerateChunks ==
  /\ rop = "none"
  /\ \E fd \in Payloads, chunk_size \in 1..MaxChunk :
       /\ rarg' = [fd |-> fd, chunk_size |-> chunk_size]
       /\ retval' = Returned(generate_chunks(fd, chunk_size))
  /\ rop' = "generate_chunks"
  /\ UNCHANGED routes
  /\ UNCHANGED <<ovars, svars, rvars, dvars>>

InitChunks ==
  /\ InitProcessor /\ variant = "wfcatalog" /\ t0 = 0
  /\ InitSlots
  /\ InitParse(<<>>)
  /\ InitTransform(<<>>)
  /\ NoDownload

NextChunks == CallGenerateChunks

SpecChunks == InitChunks /\ [][NextChunks]_vars

\* --------------------------------------------------- RoutingRequestHandler
\* Largest number of entries of the client's query_params.
MaxParams == 3

\* RoutingRequestHandler.QUERY_PARAMS
QUERY_PARAMS == {"service", "level", "minlatitude", "minlat", "maxlatitude",
                 "maxlat", "minlongitude", "minlon", "maxlongitude", "maxlon"}

\* The client's query_params: a dict, written as the list of its items [p, v]
\* with distinct keys; some keys are routing parameters, some are not.
ParamNames == {"service", "level", "minlat", "maxlongitude", "format",
               "starttime", "nodata"}
ParamValues == {"station", "text"}
ClientParams ==
  UNION {{qp \in [1..k -> [p : ParamNames, v : ParamValues]] :
            \A i, j \in 1..k : qp[i].p = qp[j].p => i = j} : k \in 0..MaxParams}

\* Fault injection for C30: the client's parameters are passed on unfiltered.
FilterNone(qp) == qp
\* dict((p, v) for p, v in self._query_params.items()
\*      if p in self.QUERY_PARAMS)
FilterParams(qp) == SelectSeq(qp, LAMBDA e : e.p \in QUERY_PARAMS)

\* d[p] = v
DictSet(qp, p, v) ==
  IF \E i \in 1..Len(qp) : qp[i].p = p
  THEN [i \in 1..Len(qp) |-> IF qp[i].p = p THEN [p |-> p, v |-> v] ELSE qp[i]]
  ELSE Append(qp, [p |-> p, v |-> v])

\* RoutingRequestHandler.__init__: self._query_params afterwards.
RoutingQueryParams(query_params) ==
  DictSet(FilterParams(query_params), "format", "post")

\* The parameter lines of payload_post: '{}={}'.format(p, v) for each item.
ParamLines(qp) == [i \in 1..Len(qp) |-> qp[i].p \o "=" \o qp[i].v]

\* A RoutingRequestHandler created with the client's query_params, and the
\* parameter lines its POST body starts with.
CallRoutingRequestHandler ==
  /\ rop = "none"
  /\ \E query_params \in ClientParams :
       /\ rarg' = query_params
       /\ retval' = Returned(ParamLines(RoutingQueryParams(query_params)))
  /\ rop' = "RoutingRequestHandler"
  /\ UNCHANGED routes
  /\ UNCHANGED <<ovars, svars, rvars, dvars>>

InitParams ==
  /\ InitProcessor /\ variant = "raw" /\ t0 = 0
  /\ InitSlots
  /\ InitParse(<<>>)
  /\ InitTransform(<<>>)
  /\ NoDownload

NextParams == CallRoutingRequestHandler

SpecParams == InitParams /\ [][NextParams]_vars

\* ------------------------------------------- RequestHandlerBase.payload_post
\* A text is the list of its pieces: the newline character, or a run of
\* characters without a newline (a 'key=value' pair, a stream epoch).
NL == "\n"

\* sep.join(strs) with sep = '\n'
RECURSIVE JoinLines(_)
JoinLines(strs) ==
  IF strs = <<>> THEN <<>>
  ELSE IF Len(strs) = 1 THEN <<strs[1]>>
  ELSE <<strs[1], NL>> \o JoinLines(Tail(strs))

\* str(se) of a stream epoch
StrOf(se) == se.network \o " " \o se.station

\* Fault injection for C31: a blank line between parameters and epochs.
FormatBlankLine(data, epochs) == data \o <<NL, NL>> \o epochs
\* '{}\n{}'.format(data, epochs)
Format(data, epochs) == data \o <<NL>> \o epochs

\* RequestHandlerBase.payload_post for the parameters qp and the stream
\* epochs ses.
payload_post(qp, ses) ==
  Format(JoinLines(ParamLines(qp)),
         JoinLines([i \in 1..Len(ses) |-> StrOf(ses[i])]))

\* The body post() hands to requests.post for a handler with the given
\* parameters and stream epochs.
CallPost ==
  /\ rop = "none"
  /\ \E qp \in ClientParams :
       \E k \in 0..MaxEpochs : \E ses \in [1..k -> StreamEpochs] :
         /\ rarg' = [query_params |-> qp, stream_epochs |-> ses]
         /\ retval' = Returned(payload_post(qp, ses))
  /\ rop' = "post"
  /\ UNCHANGED routes
  /\ UNCHANGED <<ovars, svars, rvars, dvars>>

NextPost == CallPost

SpecPost == InitParams /\ [][NextPost]_vars

\* ------------------------------------------------- route.py: connect
\* Largest number of selector lines of a DownloadTask.
MaxSncls == 4
\* Largest num_retries handed to connect.
MaxCount == 2

\* What one urlopen call does: it returns a response (urllib2 returns the
\* 2xx answers), or raises HTTPError with the status code of the answer, or
\* raises URLError / socket.error, or raises an exception of another type.
\* ctype is the Content-Type of a response.
Response(c, ct) == [kind |-> "response", code |-> c, ctype |-> ct]
HTTPError(c) == [kind |-> "HTTPError", code |-> c, ctype |-> ""]
URLError == [kind |-> "URLError", code |-> 0, ctype |-> ""]
OtherException == [kind |-> "Exception", code |-> 0, ctype |-> ""]
MIMETYPE == "application/vnd.fdsn.mseed"
Outcomes ==
  {Response(200, MIMETYPE), Response(200, "text/html"), Response(204, ""),
   Response(202, ""), HTTPError(400), HTTPError(413), HTTPError(500), URLError,
   OtherException}

\* Fault injection for C36: the last attempt is never reached.
LastAttemptNever(k, c) == FALSE
\* if n >= count: return urlopen(url, data, timeout)
LastAttempt(k, c) == k >= c

\* fd.getcode() == 200 or fd.getcode() == 204: return fd
ReturnedAtOnce(o) == o.kind = "response" /\ o.code \in {200, 204}
\* except urllib2.HTTPError as e: if e.code >= 400 and e.code < 500: raise
\* An exception that no except clause names leaves connect as well.
RaisedAtOnce(o) ==
  \/ o.kind = "HTTPError" /\ o.code >= 400 /\ o.code < 500
  \/ o.kind = "Exception"

\* How connect ends when urlopen did o: the response is returned, the error
\* is raised.
Ends(o) == [raised |-> o.kind # "response", value |-> o]

\* n >= count: the last urlopen call, outside the try statement; whatever it
\* returns or raises leaves connect.
ConnectLast ==
  /\ cpc = "loop"
  /\ LastAttempt(cn, count)
  /\ \E o \in Outcomes :
       /\ clast' = o
       /\ cret' = Ends(o)
  /\ attempts' = attempts + 1
  /\ cpc' = "ended"
  /\ UNCHANGED <<sncls, di, dn, dpc, postdata, posts, count, cn>>
  /\ UNCHANGED <<ovars, svars, rvars, tvars>>

\* n < count: n += 1, urlopen inside the try statement.  200 / 204 is
\* returned, an HTTPError 4xx is raised again; any other response, HTTPError
\* or URLError is logged, connect sleeps and goes round the loop.
ConnectTry ==
  /\ cpc = "loop"
  /\ ~LastAttempt(cn, count)
  /\ cn' = cn + 1
  /\ attempts' = attempts + 1
  /\ \E o \in Outcomes :
       /\ clast' = o
       /\ IF ReturnedAtOnce(o) \/ RaisedAtOnce(o)
          THEN cret' = Ends(o) /\ cpc' = "ended"
          ELSE UNCHANGED <<cret, cpc>>
  /\ UNCHANGED <<sncls, di, dn, dpc, postdata, posts, count>>
  /\ UNCHANGED <<ovars, svars, rvars, tvars>>

\* ------------------------------------------ route.py: DownloadTask.__call__
\* Python's s[a:b] for 0 <= a <= b (the end is clipped to the length).
Slice(s, a, b) == SubSeq(s, a + 1, IF b < Len(s) THEN b ELSE Len(s))

\* Fault injection for C37: the chunk is halved rounding down.
HalveDown(k) == k \div 2
\* n = -(n//-2)
Halve(k) == -((k) \div (-2))

\* while i < len(self.sncls): postdata holds self.sncls[i:i+n]; connect is
\* called with it.
DownloadPost ==
  /\ dpc = "loop"
  /\ di < Len(sncls)
  /\ postdata' = Slice(sncls, di, di + dn)
  /\ dpc' = "connect"
  /\ cpc' = "loop"
  /\ cn' = 0
  /\ attempts' = 0
  /\ clast' = NoOutcome
  /\ cret' = NotEnded
  /\ UNCHANGED <<sncls, di, dn, posts, count>>
  /\ UNCHANGED <<ovars, svars, rvars, tvars>>

\* The while condition is false: __call__ returns.
DownloadExit ==
  /\ dpc = "loop"
  /\ di >= Len(sncls)
  /\ dpc' = "ended"
  /\ UNCHANGED <<sncls, di, dn, postdata, posts, count, cn, attempts, cpc,
                 clast, cret>>
  /\ UNCHANGED <<ovars, svars, rvars, tvars>>

\* What the loop does with the end of connect: the next position of
\* __call__, the next i and the next n.
\* 204: i += n.  200 with the combiner's content type: combine, i += n.
\* 200 with another content type, any other status: break.
\* HTTPError 413 and n > 1: n = ceil(n/2).  Any other error: break.
AfterConnect(r, i, k) ==
  IF ~r.raised
  THEN IF r.value.code = 204 \/ (r.value.code = 200 /\ r.value.ctype = MIMETYPE)
       THEN [dpc |-> "loop", di |-> i + k, dn |-> k]
       ELSE [dpc |-> "ended", di |-> i, dn |-> k]
  ELSE IF r.value.kind = "HTTPError" /\ r.value.code = 413 /\ k > 1
       THEN [dpc |-> "loop", di |-> i, dn |-> Halve(k)]
       ELSE [dpc |-> "ended", di |-> i, dn |-> k]

\* connect has returned or raised.
DownloadResult ==
  /\ dpc = "connect"
  /\ cpc = "ended"
  /\ LET after == AfterConnect(cret, di, dn) IN
       /\ dpc' = after.dpc
       /\ di' = after.di
       /\ dn' = after.dn
  /\ posts' = Append(posts, [data |-> postdata, end |-> clast])
  /\ cpc' = "idle"
  /\ UNCHANGED <<sncls, postdata, count, cn, attempts, clast, cret>>
  /\ UNCHANGED <<ovars, svars, rvars, tvars>>

\* A DownloadTask called with up to MaxSncls selector lines (line k of the
\* list is written k) and up to MaxCount retries.
InitDownload ==
  /\ InitProcessor /\ variant = "raw" /\ t0 = 0
  /\ InitSlots
  /\ InitParse(<<>>)
  /\ InitTransform(<<>>)
  /\ \E len \in 0..MaxSncls : \E retries \in 0..MaxCount :
       InitTask([k \in 1..len |-> k], retries, "loop")
NextDownload ==
  \/ DownloadPost
  \/ ConnectTry
  \/ ConnectLast
  \/ DownloadResult
  \/ DownloadExit
SpecDownload == InitDownload /\ [][NextDownload]_vars
FairSpecDownload == SpecDownload /\ WF_vars(NextDownload)

\* =================================================================== claims
\* Vocabulary of the claims.
Submitted == 1..n
OK200 == {i \in Submitted : Ready(i) /\ Status(i) = 200}
Pending == {i \in Submitted : ~Ready(i)}
AllCompleteNo200 == n > 0 /\ \A i \in Submitted : Ready(i) /\ Status(i) # 200
Phase1 == {"p1scan", "p1check"}
Phase2 == {"p2scan", "p2check", "p2hdr", "p2open", "p2read", "p2sep", "p2rm",
           "p2foot", "p2join", "done"}
Stopped == pc \in {"done", "failed"}
\* The deadline of a request that arrived at `start`, counted from its arrival.
DeadlineOfRequest(start) == start + TIMEOUT_STREAMING

\* The client's view of the output, byte by byte: a body chunk is the bytes
\* o .. o+c-1 of its task's payload, an envelope chunk is one token.
Byte(kk, tt, oo) == [k |-> kk, t |-> tt, o |-> oo]
RECURSIVE Bytes(_)
Bytes(s) ==
  IF s = <<>> THEN <<>>
  ELSE LET h == Head(s) IN
       (IF h.k = "B" THEN [j \in 1..h.c |-> Byte("B", h.t, h.o + j - 1)]
        ELSE <<Byte(h.k, 0, 0)>>) \o Bytes(Tail(s))

Positions(kk) == {j \in 1..Len(Bytes(out)) : Bytes(out)[j].k = kk}
BodyBytes == Cardinality(Positions("B"))

RECURSIVE SumLengths(_)
SumLengths(S) ==
  IF S = {} THEN 0
  ELSE LET i == CHOOSE x \in S : TRUE IN Length(i) + SumLengths(S \ {i})

\* The bytes of a payload the variant writes to the client: all of them,
\* for WFCatalog all but the first and the last.
Written(v, len) == IF v = "wfcatalog" THEN len - 2 ELSE len
RECURSIVE SumWritten(_)
SumWritten(S) ==
  IF S = {} THEN 0
  ELSE LET i == CHOOSE x \in S : TRUE IN
       Written(variant, Length(i)) + SumWritten(S \ {i})

Perms(S) ==
  {p \in [1..Cardinality(S) -> S] :
     \A a, b \in 1..Cardinality(S) : a # b => p[a] # p[b]}

\* The bracket-stripped body of task i, and the bodies of the tasks of p
\* joined by one separator between two consecutive bodies.
Stripped(i) == [j \in 1..(Length(i) - 2) |-> Byte("B", i, j)]
RECURSIVE Joined(_)
Joined(p) ==
  IF p = <<>> THEN <<>>
  ELSE IF Len(p) = 1 THEN Stripped(p[1])
  ELSE Stripped(p[1]) \o <<Byte("S", 0, 0)>> \o Joined(Tail(p))

\* C1: first-data gate.  Once _request has submitted the tasks, a chunk is
\* yielded, and the generator is entered at all, only after streamed_response
\* has seen a ready result with status 200; and when the request has ended
\* while no task returned 200, it ended with NoData and nothing was yielded.
C1_FirstDataGate ==
  /\ (out # <<>> \/ pc \in Phase2) => (result_with_data /\ OK200 # {})
  /\ (n > 0 /\ Stopped /\ OK200 = {}) => (pc = "failed" /\ error = "NoData" /\ out = <<>>)

\* C1 witness: the request was given up with NoData after every task had
\* completed without a 200.
C1_Witness ==
  /\ pc = "failed" /\ error = "NoData" /\ n = 2
  /\ AllCompleteNo200 /\ out = <<>>

\* C2: envelope discipline.  After a complete run of a variant with a header
\* that wrote body bytes: exactly one header, before every body byte, and for
\* the variants with a footer exactly one footer, after every body byte.
C2_EnvelopeDiscipline ==
  (pc = "done" /\ HasHeader(variant, level) /\ BodyBytes > 0) =>
    /\ Cardinality(Positions("H")) = 1
    /\ \A h \in Positions("H") : \A b \in Positions("B") : h < b
    /\ HasFooter(variant) =>
         /\ Cardinality(Positions("F")) = 1
         /\ \A f \in Positions("F") : \A b \in Positions("B") : b < f

\* C3: 413 is log-and-drop.  No request is ended by the handling of a 413
\* result, and a drained request has streamed the payload of every task that
\* returned 200.
C3_DropAndContinue ==
  /\ ~(pc = "failed" /\ cause = "handle_413")
  /\ pc = "done" =>
       \A i \in OK200 :
         Cardinality({j \in Positions("B") : Bytes(out)[j].t = i})
           = Written(variant, Length(i))

\* C4: the phase-1 timeout is per request.  A request given up by the
\* deadline test while all its tasks are pending is past its own start time
\* plus the streaming timeout.
C4_PerRequestTimeout ==
  (pc = "failed" /\ cause = "timeout" /\ Pending = Submitted) =>
    now > DeadlineOfRequest(t0)

\* C5: phase 1 ends as soon as no task is outstanding.  Once every submitted
\* task has completed and none returned 200, streamed_response fails with
\* NoData, whether or not the clock advances.
C5_NoWaitWhenDrained ==
  (pc \in Phase1 /\ AllCompleteNo200) ~> (pc = "failed" /\ error = "NoData")

\* C6: temp-file cleanup on every exit.  When the orchestrator has stopped,
\* no temp file of a task of the request exists.
C6_NoTempFilesLeft == Stopped => files = {}

\* C7: WFCatalog merge.  The complete output is the list start, the stripped
\* bodies of exactly the 200 tasks in some order with one separator between
\* two consecutive bodies, and the list end.
C7_WfcMerge ==
  (variant = "wfcatalog" /\ pc = "done") =>
    \E p \in Perms(OK200) :
      Bytes(out) = <<Byte("H", 0, 0)>> \o Joined(p) \o <<Byte("F", 0, 0)>>

\* C8 as stated: after a complete drain the lengths of the 200 results add up
\* to the number of body bytes written.
C8_LengthSum == pc = "done" => SumLengths(OK200) = BodyBytes

\* C8 amended: after a complete drain the number of body bytes written is the
\* sum over the 200 results of result.length, and for WFCatalog of
\* result.length less the two stripped brackets.
C8_WrittenSum == pc = "done" => SumWritten(OK200) = BodyBytes

\* C8 witness: a drained WFCatalog request of two 200 results that wrote body
\* bytes.
C8_Witness ==
  /\ pc = "done" /\ variant = "wfcatalog"
  /\ Cardinality(OK200) = 2 /\ BodyBytes > 0

\* C10: acquire succeeds when a slot is free.  An acquire that has returned
\* while fewer slots were held than the capacity returned success.
SlotsHeld == Cardinality({w \in SlotWorkers : spc[w] = "returned" /\ sret[w] = "True"})
C10_AcquireSucceedsWhenFree ==
  \A w \in SlotWorkers :
    (spc[w] = "returned" /\ SlotsHeld < SlotCapacity) => sret[w] = "True"

\* C11: acquire is bounded by its timeout.  With a finite timeout >= 0 and no
\* slot becoming free, acquire does not give up before the timeout has
\* elapsed (the clock has reached valid_until), and it does not go on polling
\* (sleeping) once the timeout has elapsed.
C11_AcquireBoundedByTimeout ==
  \A w \in SlotWorkers :
    stimeout[w] >= 0 =>
      /\ (spc[w] = "returned" /\ sret[w] = "False") => snow >= valid_until[w]
      /\ spc[w] = "sleep" => snow < valid_until[w]

\* The blocks of the routing response: the maximal runs of lines that are not
\* blank, as <<first, last>> line numbers; the block-wise routing table.
IsBlank(line) == Strip(line) = ""
BlockSpans ==
  {sp \in (1..Len(lines)) \X (1..Len(lines)) :
     /\ sp[1] <= sp[2]
     /\ \A k \in sp[1]..sp[2] : ~IsBlank(lines[k])
     /\ sp[1] = 1 \/ IsBlank(lines[sp[1] - 1])
     /\ sp[2] = Len(lines) \/ IsBlank(lines[sp[2] + 1])}
RouteOfBlock(sp) ==
  Route(Strip(lines[sp[1]]),
        [k \in 1..(sp[2] - sp[1]) |-> FromSnclLine(lines[sp[1] + k], DEFAULT_ENDTIME)])
RECURSIVE InBlockOrder(_)
InBlockOrder(S) ==
  IF S = {} THEN <<>>
  ELSE LET m == CHOOSE sp \in S : \A o \in S : sp[1] <= o[1]
       IN <<RouteOfBlock(m)>> \o InBlockOrder(S \ {m})
ExpectedTable == InBlockOrder({sp \in BlockSpans : sp[2] > sp[1]})
IsPrefix(a, b) == Len(a) <= Len(b) /\ SubSeq(b, 1, Len(a)) = a

\* C12: routing parse.  The routing table _route returns holds one route per
\* block with at least one stream-epoch line, in block order, its URL the
\* block's first line and its stream epochs the following lines in order;
\* while parsing, the table is a prefix of that.
C12_RoutingParse ==
  /\ IsPrefix(routing_table, ExpectedTable)
  /\ rpc = "returned" => routing_table = ExpectedTable

\* C12 witness: a parse that returned two routes from a body whose two blocks
\* are separated by two blank lines.
C12_Witness ==
  /\ rpc = "returned" /\ Len(routing_table) = 2
  /\ \E k \in 1..(Len(lines) - 1) : IsBlank(lines[k]) /\ IsBlank(lines[k + 1])

\* C13: the routing parse ends at the end of the input.  Once readline has
\* returned the end of the body, the loop is left and the routing table is
\* complete.
C13_ParseTerminates ==
  reads > Len(lines) => (rpc = "returned" /\ routing_table = ExpectedTable)

\* C14: routing failures.  A request whose routing request failed ended with
\* NoData when the routing service answered 204 and with an internal server
\* error otherwise; no worker pool was created, no task was submitted and
\* nothing was streamed.
RoutingFailed == cause \in RoutingOutcomes \ {"routes"}
C14_RoutingFailures ==
  RoutingFailed =>
    /\ pc = "failed"
    /\ cause = "NoContent" => error = "NoData"
    /\ cause = "RequestsError" => error = "InternalServerError"
    /\ pool = "none" /\ n = 0 /\ results = <<>>
    /\ \A i \in TaskIds : tasks[i] = NoTask
    /\ out = <<>> /\ files = {}

\* C14 witness: a request ended by a routing failure other than 204.
C14_Witness ==
  pc = "failed" /\ cause = "RequestsError" /\ error = "InternalServerError"

\* C15: no envelope around an empty body.  A drained request that wrote no
\* body byte emitted neither the header nor the footer.
C15_NoEnvelopeOnEmptyBody ==
  (pc = "done" /\ BodyBytes = 0) =>
    (Positions("H") = {} /\ Positions("F") = {})

\* C16: temp-file lifecycle on the success path.  The file of the result being
\* streamed exists until its last chunk was emitted; a 200 result that was
\* drained has all its chunks in the output and its file removed before the
\* loop looks at the next result; a 200 result not yet streamed still has its
\* file and no chunk in the output; no result is processed twice and no file
\* is opened after its removal.
Outstanding == {results[j] : j \in 1..Len(results)}
InResults(i) == \E j \in 1..Len(results) : results[j] = i
Streaming == {"p2hdr", "p2open", "p2read", "p2sep", "p2rm"}
\* The number of body bytes of task i among the first a chunks of the output.
RECURSIVE BytesUpTo(_, _)
BytesUpTo(i, a) ==
  IF a = 0 THEN 0
  ELSE (IF out[a].k = "B" /\ out[a].t = i THEN out[a].c ELSE 0) + BytesUpTo(i, a - 1)
BytesOf(i) == BytesUpTo(i, Len(out))
NoChunkOf(i) == \A a \in 1..Len(out) : out[a].t # i
C16_TempFileLifecycle ==
  /\ cause # "open"
  /\ (pc \in Streaming /\ cur # 0) => (cur \in files /\ InResults(cur))
  /\ \A a, b \in 1..Len(results) : a # b => results[a] # results[b]
  /\ \A i \in 1..n :
       (Ready(i) /\ Status(i) = 200) =>
         IF InResults(i)
         THEN i # cur => (i \in files /\ NoChunkOf(i))
         ELSE i \notin files /\ BytesOf(i) = Written(variant, Length(i))

\* C16 witness: between two results: one 200 result of more than one chunk
\* was drained and its file removed, another 200 result waits with its file.
C16_Witness ==
  /\ pc = "p2scan" /\ cur = 0
  /\ \E i, j \in OK200 :
       /\ i \notin Outstanding /\ Length(i) > CHUNK_SIZE /\ i \notin files
       /\ j \in Outstanding /\ j \in files

\* C17: a mid-body failure truncates the response.  Once a StreamingError was
\* raised the generator is finished: the footer is not in the output, and no
\* step emits a further chunk (no footer, no chunk of a later payload).
C17_MidBodyFailureTruncates ==
  /\ [](error = "StreamingError" => (pc = "failed" /\ Positions("F") = {}))
  /\ [][error = "StreamingError" => out' = out]_vars

\* C17 witness: a StreamingError while the first of two 200 payloads of a
\* variant with a footer was being streamed, after one of its chunks.
C17_Witness ==
  /\ error = "StreamingError" /\ HasFooter(variant)
  /\ BytesOf(cur) > 0
  /\ \E j \in OK200 : j # cur /\ j \in Outstanding /\ j \in files

\* C18: client disconnect.  Once the generator was closed between two chunks
\* the worker pool is closed and no temp file of a result not yet streamed
\* is left.
C18_ClientDisconnect ==
  pc = "disconnected" =>
    /\ pool \in {"closed", "joined"}
    /\ \A i \in Outstanding : i \notin files

\* C19: the drain terminates.  With every submitted task becoming ready,
\* phase 2 ends: in a complete drain unless a StreamingError or a disconnect
\* ended it before.  A complete drain has drained every outstanding result
\* (each 200 payload is in the output, its file removed), the footer of a
\* variant that has one is the last chunk, and the pool was joined after it.
Ended == pc \in {"done", "failed", "disconnected"}
C19_DrainTerminates ==
  /\ (pc \in Phase2) ~> Ended
  /\ [](pc \in {"p2foot", "p2join", "done"} =>
          /\ results = <<>>
          /\ \A i \in Submitted : Ready(i)
          /\ \A i \in OK200 : BytesOf(i) = Written(variant, Length(i)))
  /\ [](pc \in {"p2join", "done"} =>
          (HasFooter(variant) => (out # <<>> /\ out[Len(out)] = FOOTER)))
  /\ [](pool = "joined" <=> pc = "done")

\* C19 witness: a complete drain of two tasks, one of them without data, in a
\* variant with a footer.
C19_Witness ==
  /\ pc = "done" /\ n = 2 /\ HasFooter(variant)
  /\ Cardinality(OK200) = 1 /\ BodyBytes > 0

\* C20: per-task atomicity of the output.  Between two chunks of one task's
\* payload there is nothing but chunks of that payload (no chunk of another
\* task, no header, no separator), and the chunks of a payload follow each
\* other in the payload's order: the first starts where the variant starts
\* reading, each next one where the read before it ended.
IsBody(a) == out[a].k = "B"
FirstOffset(v) == IF v = "wfcatalog" THEN 1 ELSE 0
C20_PerTaskAtomicity ==
  /\ \A a, b \in 1..Len(out) :
       (a < b /\ IsBody(a) /\ IsBody(b) /\ out[a].t = out[b].t) =>
         (IsBody(a + 1) /\ out[a + 1].t = out[a].t)
  /\ \A a \in 1..Len(out) :
       IsBody(a) =>
         IF a > 1 /\ IsBody(a - 1) /\ out[a - 1].t = out[a].t
         THEN out[a].o = out[a - 1].o + ReadLen(Length(out[a].t), out[a - 1].o)
         ELSE out[a].o = FirstOffset(variant)

\* C20 witness: a complete drain of two 200 payloads of more than one chunk
\* each.
C20_Witness ==
  /\ pc = "done" /\ Cardinality(OK200) = 2
  /\ \A i \in OK200 : Cardinality({a \in 1..Len(out) : IsBody(a) /\ out[a].t = i}) > 1

\* The number of stream epochs of the routes before the i-th.
RECURSIVE EpochsBefore(_, _)
EpochsBefore(rs, i) ==
  IF i = 1 THEN 0 ELSE EpochsBefore(rs, i - 1) + Len(rs[i - 1].streams)
\* d holds, for every route of rs and every stream epoch of it, one route
\* with that URL and that epoch alone, in the order of rs and of its epochs.
IsDemuxOf(d, rs) ==
  /\ Len(d) = EpochsBefore(rs, Len(rs) + 1)
  /\ \A i \in 1..Len(rs) : \A j \in 1..Len(rs[i].streams) :
       d[EpochsBefore(rs, i) + j] = Route(rs[i].url, <<rs[i].streams[j]>>)

\* C24: demux_routes returns one route per (route, stream epoch) pair of its
\* input, with the route's URL and that one epoch, in input order; its length
\* is the sum of the epoch counts.
C24_DemuxRoutes ==
  rop = "demux_routes" =>
    /\ retval.raised = None
    /\ IsDemuxOf(retval.value, routes)
    /\ \A i \in 1..Len(retval.value) : Len(retval.value[i].streams) = 1

\* A table of two routes, one of them with more than one epoch, demultiplexed.
C24_Witness ==
  /\ rop = "demux_routes"
  /\ Len(routes) >= 2
  /\ \E i \in 1..Len(routes) : Len(routes[i].streams) >= 2
  /\ Len(retval.value) > Len(routes)

\* A key group_routes_by can group by: a stream attribute, or stream
\* attributes combined with '.'.
ValidKey(key) == Len(key) >= 1 /\ \A i \in 1..Len(key) : key[i] \in StreamAttrs
\* The key value of a demultiplexed route: the attribute of its stream, for a
\* combined key the attribute values with '.' between them.
KeyValue(route, key) ==
  IF Len(key) = 1 THEN route.streams[1][key[1]]
  ELSE route.streams[1][key[1]] \o "." \o route.streams[1][key[2]]
\* The demultiplexed routes of d whose key value is k, in the order of d.
BucketOf(d, key, k) == SelectSeq(d, LAMBDA r : KeyValue(r, key) = k)

\* C25: for a valid key group_routes_by returns a mapping in which every
\* demultiplexed route is in exactly one bucket, the one of its key value, and
\* every bucket keeps the relative order of the demultiplexed list.
C25_GroupByPartition ==
  (rop = "group_routes_by" /\ ValidKey(rarg)) =>
    /\ retval.raised = None
    /\ LET items == retval.value
           d == demux_routes(routes)
       IN /\ \A i, j \in 1..Len(items) : items[i].key = items[j].key => i = j
          /\ \A p \in 1..Len(d) :
               \E i \in 1..Len(items) : items[i].key = KeyValue(d[p], rarg)
          /\ \A i \in 1..Len(items) :
               /\ items[i].routes # <<>>
               /\ items[i].routes = BucketOf(d, rarg, items[i].key)

\* Grouping by network.station with two buckets, one of them holding two
\* routes of different endpoints.
C25_Witness ==
  /\ rop = "group_routes_by"
  /\ rarg = <<"network", "station">>
  /\ Len(retval.value) >= 2
  /\ \E i \in 1..Len(retval.value) :
       /\ Len(retval.value[i].routes) >= 2
       /\ retval.value[i].routes[1].url # retval.value[i].routes[2].url

\* C26: with a key that is neither a stream attribute nor a combination of
\* stream attributes, group_routes_by raises RequestProcessorError for every
\* list of routes, the empty list included.
C26_UnknownKeyRejected ==
  (rop = "group_routes_by" /\ ~ValidKey(rarg)) =>
    retval.raised = RequestProcessorError

\* The position in the demultiplexed list d of the first route whose key
\* value is k.
FirstIdx(d, key, k) ==
  CHOOSE p \in 1..Len(d) :
    /\ KeyValue(d[p], key) = k
    /\ \A q \in 1..(p - 1) : KeyValue(d[q], key) # k
\* The key values present in the demultiplexed list d.
KeyValues(d, key) == {KeyValue(d[p], key) : p \in 1..Len(d)}

\* C27: with level=network the reduced routes hold, for every network of the
\* routing table, exactly one demultiplexed route: the first route of that
\* network in routing-table order (first route, first epoch).
C27_LevelNetwork ==
  (rop = "_route" /\ rarg = "network") =>
    /\ retval.raised = None
    /\ LET items == retval.value
           d == demux_routes(routes)
           nets == KeyValues(d, <<"network">>)
       IN /\ Len(items) = Cardinality(nets)
          /\ \A net \in nets :
               \E i \in 1..Len(items) :
                 /\ items[i].key = net
                 /\ items[i].routes = <<d[FirstIdx(d, <<"network">>, net)]>>

\* level=network on a table with two networks, the first network with a
\* second route that is not kept.
C27_Witness ==
  /\ rop = "_route" /\ rarg = "network"
  /\ Len(retval.value) = 2
  /\ Len(demux_routes(routes)) > 2
  /\ \E p \in 2..Len(demux_routes(routes)) :
       /\ demux_routes(routes)[p].streams[1].network
            = demux_routes(routes)[1].streams[1].network
       /\ demux_routes(routes)[p] # demux_routes(routes)[1]

\* C28: with level=station the reduced routes hold, for every (network,
\* station) pair of the routing table, exactly one demultiplexed route, the
\* first of that pair in routing-table order; they are grouped by network and
\* keep routing-table order within a network.
C28_LevelStation ==
  (rop = "_route" /\ rarg = "station") =>
    /\ retval.raised = None
    /\ LET items == retval.value
           d == demux_routes(routes)
           ns == <<"network", "station">>
           pairs == KeyValues(d, ns)
           Kept(i, a) == items[i].routes[a]
       IN /\ SumSeq([i \in 1..Len(items) |-> Len(items[i].routes)])
               = Cardinality(pairs)
          /\ \A k \in pairs :
               \E i \in 1..Len(items) : \E a \in 1..Len(items[i].routes) :
                 Kept(i, a) = d[FirstIdx(d, ns, k)]
          /\ \A i, j \in 1..Len(items) : items[i].key = items[j].key => i = j
          /\ \A i \in 1..Len(items) :
               /\ items[i].routes # <<>>
               /\ \A a \in 1..Len(items[i].routes) :
                    Kept(i, a).streams[1].network = items[i].key
               /\ \A a, b \in 1..Len(items[i].routes) :
                    a < b => FirstIdx(d, ns, KeyValue(Kept(i, a), ns))
                               < FirstIdx(d, ns, KeyValue(Kept(i, b), ns))

\* level=station on a table in which a (network, station) pair occurs twice at
\* different endpoints and a network keeps the routes of two stations.
C28_Witness ==
  /\ rop = "_route" /\ rarg = "station"
  /\ \E i \in 1..Len(retval.value) : Len(retval.value[i].routes) = 2
  /\ \E p, q \in 1..Len(demux_routes(routes)) :
       /\ p < q
       /\ demux_routes(routes)[p].streams = demux_routes(routes)[q].streams
       /\ demux_routes(routes)[p].url # demux_routes(routes)[q].url

\* C21: _request submits exactly one download task for each demultiplexed
\* route, each with that route's URL and its one stream epoch (raw, wfcatalog,
\* station text, the latter for the routes left by the level reduction), and
\* exactly one combiner task per network (station xml); nothing is submitted
\* twice.
C21_OneTaskPerRoute ==
  rop = "_request" =>
    LET submitted == retval.value
        d == demux_routes(routes)
        nets == KeyValues(d, <<"network">>)
    IN IF rarg.variant = "xml"
       THEN /\ Len(submitted) = Cardinality(nets)
            /\ \A net \in nets :
                 \E p \in 1..Len(submitted) :
                   /\ submitted[p].name = net
                   /\ submitted[p].routes # <<>>
                   /\ \A a \in 1..Len(submitted[p].routes) :
                        submitted[p].routes[a].streams[1].network = net
       ELSE LET rs == IF rarg.variant = "text"
                      THEN flatten_routes(StationRoute(routes, rarg.level).value)
                      ELSE d
            IN /\ Len(submitted) = Len(rs)
               /\ \A p \in 1..Len(rs) :
                    /\ submitted[p].url = rs[p].url
                    /\ submitted[p].stream_epochs = rs[p].streams
                    /\ Len(submitted[p].stream_epochs) = 1

\* A raw or wfcatalog request whose routing table has a route of two epochs,
\* with more tasks than routes, or a station-xml request with two networks.
C21_Witness ==
  /\ rop = "_request"
  /\ retval.raised = None
  /\ \/ /\ rarg.variant \in {"raw", "wfcatalog"}
        /\ Len(retval.value) > Len(routes)
        /\ Len(routes) >= 2
     \/ /\ rarg.variant = "xml"
        /\ Len(retval.value) = 2
        /\ Len(demux_routes(routes)) > 2

\* C22: empty routing table.  A request whose routing succeeded with zero
\* routes, so that no task was submitted, ended with NoData.
C22_EmptyRoutingTable ==
  (pc = "failed" /\ n = 0 /\ ~RoutingFailed) => error = "NoData"

\* The steps in which the orchestrator calls result.get(): phase 1 and phase
\* 2 handling the result the for loop is at.
CallsGet == P1Ok \/ P1TooLarge \/ P1Error \/ P2Ok \/ P2Error

\* C23: no blocking wait on a task.  In every step in which the orchestrator
\* calls get() on a handle, in both phases and every variant, the task of
\* that handle has finished; a handle that is not ready is stepped over.
C23_NoBlockingGet ==
  [][CallsGet => (InLoop /\ tasks[Cursor].st = "ready")]_vars

\* A result is being streamed while another handle, still in _results, is not
\* ready: it was stepped over, not waited for.
C23_Witness ==
  /\ pc \in Phase2 /\ cur # 0
  /\ \E a \in 1..Len(results) : tasks[results[a]].st = "pending"

\* The chunks of a list one after the other.
RECURSIVE Concat(_)
Concat(chunks) ==
  IF chunks = <<>> THEN <<>> ELSE Head(chunks) \o Concat(Tail(chunks))

\* C29: WFCatalog bracket stripping.  For a payload of at least two bytes and
\* a chunk size of at least one, the chunks generate_chunks yields, one after
\* the other, are the payload without its first and without its last byte.
C29_BracketStripping ==
  (rop = "generate_chunks" /\ Len(rarg.fd) >= 2) =>
    Concat(retval.value) = SubSeq(rarg.fd, 2, Len(rarg.fd) - 1)

\* A payload read in more than one chunk whose last chunk held the closing
\* byte alone, and so was yielded empty.
C29_Witness ==
  /\ rop = "generate_chunks"
  /\ Len(rarg.fd) >= 4
  /\ Len(retval.value) >= 2
  /\ retval.value[Len(retval.value)] = <<>>

\* The parameter names the routing service is sent.
Recognised == {"service", "level", "minlatitude", "minlat", "maxlatitude",
               "maxlat", "minlongitude", "minlon", "maxlongitude", "maxlon"}

\* C30: routing request parameters.  What RoutingRequestHandler sends is the
\* client's entries with a recognised key, each once and unchanged, and
\* format=post; nothing else, and never the client's own format value.
C30_RoutingParams ==
  rop = "RoutingRequestHandler" =>
    LET sent == retval.value
        kept == {i \in 1..Len(rarg) : rarg[i].p \in Recognised}
    IN /\ Len(sent) = Cardinality(kept) + 1
       /\ \A i \in kept :
            \E a \in 1..Len(sent) : sent[a] = rarg[i].p \o "=" \o rarg[i].v
       /\ \E a \in 1..Len(sent) : sent[a] = "format=post"
       /\ \A a \in 1..Len(sent) : sent[a] # "format=text"
       /\ \A a \in 1..Len(sent) : sent[a] # "format=station"

\* A client that sent a recognised parameter, an unrecognised one and its own
\* format.
C30_Witness ==
  /\ rop = "RoutingRequestHandler"
  /\ \E i, j, k \in 1..Len(rarg) :
       /\ rarg[i].p \in Recognised
       /\ rarg[j].p = "format" /\ rarg[j].v = "text"
       /\ rarg[k].p = "starttime"
  /\ Len(retval.value) = 2

\* The lines of a text: what stands between its newlines.
RECURSIVE SplitLines(_)
SplitLines(text) ==
  IF \A i \in 1..Len(text) : text[i] # NL
  THEN <<IF text = <<>> THEN "" ELSE text[1]>>
  ELSE LET i == CHOOSE j \in 1..Len(text) :
                  text[j] = NL /\ \A h \in 1..(j - 1) : text[h] # NL
       IN <<IF i = 1 THEN "" ELSE text[1]>>
          \o SplitLines(SubSeq(text, i + 1, Len(text)))
\* The key=value lines and the stream epoch lines of the handler.
KeyValueLines == [i \in 1..Len(rarg.query_params) |->
                    rarg.query_params[i].p \o "=" \o rarg.query_params[i].v]
EpochLines == [i \in 1..Len(rarg.stream_epochs) |->
                 rarg.stream_epochs[i].network \o " "
                   \o rarg.stream_epochs[i].station]

\* C31 as stated: the body of post() is the key=value lines, a blank line,
\* then one line per stream epoch in epoch order.
C31_BlankLineLayout ==
  (rop = "post" /\ rarg.query_params # <<>>) =>
    SplitLines(retval.value) = KeyValueLines \o <<"">> \o EpochLines

\* C31 amended: the body of post() is the key=value lines directly followed
\* by one line per stream epoch in epoch order, with no blank line between
\* them; without stream epochs it is the key=value lines and a final newline.
C31_PostBodyLayout ==
  (rop = "post" /\ rarg.query_params # <<>>) =>
    SplitLines(retval.value) =
      IF rarg.stream_epochs # <<>> THEN KeyValueLines \o EpochLines
      ELSE KeyValueLines \o <<"">>

\* A body built from two parameters and two stream epochs.
C31_Witness ==
  /\ rop = "post"
  /\ Len(rarg.query_params) >= 2
  /\ Len(rarg.stream_epochs) >= 2
  /\ Len(SplitLines(retval.value)) = 4

\* C32: request-scoped default end.  A stream epoch parsed from the routing
\* response without an end time has a default end that is not earlier than
\* the start of the request that is being handled.
C32_RequestScopedDefaultEnd ==
  /\ \A i \in 1..Len(stream_epochs) : stream_epochs[i].endtime >= t0
  /\ \A r \in 1..Len(routing_table) :
       \A i \in 1..Len(routing_table[r].streams) :
         routing_table[r].streams[i].endtime >= t0

\* The steps of the generic error path: _handle_error, _sizes.append(0) and
\* the removal of the result, in phase 1 and in phase 2.
GenericErrorPath == P1Error \/ P2Error

\* C33: 413 goes to the hook.  A result with status 413 is never handled by
\* the generic error path, in phase 1 or while streaming.
C33_TooLargeGoesToHook ==
  [][GenericErrorPath => Status(Cursor) # 413]_vars

\* The size the tally expects for task i: the body bytes emitted for a 200
\* result, 0 for any other result.
TallyOf(i) == IF Status(i) = 200 THEN Written(variant, Length(i)) ELSE 0
CountIn(sz, v) == Cardinality({j \in 1..Len(sz) : sz[j] = v})

\* C34: sizes tally.  After a complete drain the sizes list has exactly one
\* entry per submitted task: every task is ready, and each size occurs in the
\* list as often as there are tasks with that emitted body size (0 for a task
\* that failed).
C34_SizesTally ==
  pc = "done" =>
    /\ Len(sizes) = n
    /\ \A i \in Submitted : Ready(i)
    /\ \A v \in 0..MaxLen :
         CountIn(sizes, v) = Cardinality({i \in Submitted : TallyOf(i) = v})
    /\ \A i \in OK200 : BytesOf(i) = TallyOf(i)

\* C34 witness: a drained request of two tasks, one failed and one with a
\* body, whose failed task was tallied first.
C34_Witness ==
  /\ pc = "done" /\ n = 2
  /\ \E i, j \in Submitted : Status(i) = 200 /\ Length(i) > 2 /\ Status(j) # 200
  /\ sizes[1] = 0 /\ sizes[2] > 0

\* The result the loop round is handling: the payload being streamed, or the
\* element the for loop looks at.
Handled == IF pc \in Streaming THEN cur ELSE Cursor
RemoveAt(s, k) == SubSeq(s, 1, k - 1) \o SubSeq(s, k + 1, Len(s))
BetweenResults == pc \in {"p1scan", "p1check", "p2scan", "p2check"}

\* C35: exactly-once draining.  A step that removes a result removes exactly
\* the one just handled; a removed result never comes back and no result is
\* listed twice; between two results every removed result was tallied once;
\* no 200 payload is ever streamed beyond its length, a removed 200 payload
\* was streamed in full, and after a complete drain no result is outstanding.
C35_ExactlyOnceDraining ==
  /\ [][(n' = n /\ results' # results) =>
         \E k \in 1..Len(results) :
            results[k] = Handled /\ results' = RemoveAt(results, k)]_vars
  /\ [](\A a, b \in 1..Len(results) : a # b => results[a] # results[b])
  /\ [](BetweenResults => Len(sizes) + Len(results) = n)
  /\ [](\A i \in OK200 :
          /\ BytesOf(i) <= Written(variant, Length(i))
          /\ ~InResults(i) => BytesOf(i) = Written(variant, Length(i)))
  /\ [](pc = "done" => results = <<>> /\ \A i \in Submitted : Ready(i))

\* C35 witness: a removal made the running scan end without looking at the
\* result behind the removed one, a ready 200 result still to be streamed.
C35_Witness ==
  /\ pc = "p2scan" /\ n = 2 /\ idx = 1
  /\ results = <<2>> /\ Ready(2) /\ Status(2) = 200 /\ NoChunkOf(2)
  /\ 1 \in OK200 /\ BytesOf(1) = Written(variant, Length(1)) /\ BytesOf(1) > 0

\* C36: bounded transport retries.  connect makes at most count + 1 urlopen
\* calls, and while it is in its loop it has made at most count and can make
\* another; it is still in its loop only after an outcome other than a
\* 200 / 204 response or an HTTP 4xx error; and it ends with the last outcome:
\* the response returned, the error raised.
C36_BoundedRetries ==
  /\ attempts <= count + 1
  /\ cpc = "loop" =>
       /\ attempts <= count
       /\ ENABLED (ConnectTry \/ ConnectLast)
       /\ attempts > 0 =>
            /\ ~(clast.kind = "response" /\ clast.code \in {200, 204})
            /\ ~(clast.kind = "HTTPError" /\ clast.code \in 400..499)
  /\ cpc = "ended" =>
       /\ attempts >= 1
       /\ cret.value = clast
       /\ cret.raised <=> clast.kind # "response"

\* C36 witness: two retries and the last attempt all met an unreachable
\* endpoint, and connect raised the error of the last attempt.
C36_Witness ==
  /\ cpc = "ended" /\ count = 2 /\ attempts = 3
  /\ cret.raised /\ clast.kind = "URLError"

\* The POSTs that ended with a 200 or 204 response, and their lines in the
\* order they were sent.
Completed(p) == p.end.kind = "response" /\ p.end.code \in {200, 204}
RECURSIVE LinesOf(_)
LinesOf(ps) ==
  IF ps = <<>> THEN <<>> ELSE Head(ps).data \o LinesOf(Tail(ps))
CompletedLines == LinesOf(SelectSeq(posts, Completed))
Got413 == clast.kind = "HTTPError" /\ clast.code = 413

\* C37: legacy download splitting.  The posting loop ends; the lines of the
\* POSTs that completed with 200 or 204 are, in order, a prefix of the list
\* (so each of them was sent in exactly one such POST); every POST carries
\* the lines from the current offset on, at least one; after a 413 on more
\* than one line the offset stays and the chunk becomes ceil(n/2) lines, and
\* a 413 on a single line ends the loop.
C37_DownloadSplitting ==
  /\ <>(dpc = "ended")
  /\ [](/\ Len(CompletedLines) <= Len(sncls)
        /\ CompletedLines = SubSeq(sncls, 1, Len(CompletedLines)))
  /\ [](dpc = "connect" =>
          /\ postdata # <<>>
          /\ Len(postdata) <= dn
          /\ \A k \in 1..Len(postdata) : postdata[k] = sncls[di + k]
          /\ Len(postdata) < dn => di + Len(postdata) = Len(sncls))
  /\ [][(dpc = "connect" /\ dpc' # "connect" /\ Got413) =>
          IF dn > 1
          THEN /\ dpc' = "loop" /\ di' = di
               /\ 2 * dn' >= dn /\ 2 * (dn' - 1) < dn
          ELSE dpc' = "ended"]_vars

\* C37 witness: a list of four lines; 413 on four lines, 413 on two, then
\* three single lines sent and a 413 on the last single line ended the loop.
C37_Witness ==
  /\ dpc = "ended" /\ Len(sncls) = 4 /\ di = 3 /\ dn = 1
  /\ Len(posts) = 6 /\ Len(CompletedLines) = 3
  /\ Len(posts[1].data) = 4 /\ Len(posts[2].data) = 2
  /\ posts[6].end = HTTPError(413)

\* C38: routes are never empty.  Every route of the routing table _route
\* builds, and so of the table it returns, has a non-empty URL and at least
\* one stream epoch; a step that closes a block without epochs adds no route;
\* and every route of the demultiplexed table has a first stream.
C38_RoutesNeverEmpty ==
  /\ [](\A r \in 1..Len(routing_table) :
          /\ routing_table[r].url \notin {None, ""}
          /\ Len(routing_table[r].streams) >= 1)
  /\ [](LET demuxed == demux_routes(routing_table) IN
          \A d \in 1..Len(demuxed) :
            /\ Len(demuxed[d].streams) >= 1
            /\ demuxed[d].url \notin {None, ""})
  /\ [][(rpc = "loop" /\ stream_epochs = <<>>) =>
          routing_table' = routing_table]_vars

\* C38 witness: _route returned one route for a body of two blocks, the
\* first of them a URL without any epoch line.
C38_Witness ==
  /\ rpc = "returned"
  /\ lines = <<"a\n", "\n", "a\n", "b\n">>
  /\ Len(routing_table) = 1

====
